---- MODULE Spec2Model ----
(***************************************************************************)
(* Digma command bridge (src/src/server.ts, class DigmaBridge) together    *)
(* with the library catalog store (class FigmaLibraryScanner).             *)
(*                                                                         *)
(* The bridge runs on a single Node.js event loop: every handler below is  *)
(* one atomic step.  Each WebSocket connection is a closure holding its    *)
(* own nonce, handshakeComplete flag and handshake timer; the bridge holds *)
(* the shared ws slot, the authenticated flag and the pendingRequests map. *)
(***************************************************************************)
EXTENDS Integers, Sequences, FiniteSets, TLC

\* ---------------------------------------------------------------- bounds
MaxConns == 2          \* connections accepted during one run
MaxIds == 2            \* commands issued during one run
MaxComponents == 2     \* components (styles) in one catalog
MaxQueryLen == 2       \* characters in a search query
MaxMessages == 3       \* messages the UI page hands to the plugin during one run
SmallCatalog == 30     \* components of a catalog that stays below the search limit
LargeCatalog == 51     \* components of a catalog that exceeds the search limit

\* ------------------------------------------------------ program constants
CLOSE_HANDSHAKE_TIMEOUT == 4001
CLOSE_INVALID_HANDSHAKE == 4003
CLOSE_NO_STATUS == 1005      \* ws.close() called without a code
NoCode == 0                  \* close() has not been called on the socket

Conns == 1..MaxConns
Ids == 1..MaxIds             \* the UUIDs randomUUID() can return in one run
Nonces == 1..MaxConns        \* the values randomBytes(32) can return in one run
Null == 0                    \* this.ws === null
NoId == 0                    \* msg.id absent
NoNonce == 0

HANDSHAKE_KEY == "key"
Keys == {HANDSHAKE_KEY, "otherKey"}

Commands == {"create_frame"}
Params == {"p1"}
Results == {"r1"}
ErrorTexts == {"e1"}
FileKeys == {"f1"}
Payloads == {"v1"}

TimedOut == "timed out"
Disconnected == "Digma plugin disconnected"
NotConnected == "Digma plugin is not connected"
HandshakeRequired == "Handshake required"

VARIABLES
    readyState,          \* ws.readyState of each connection ("NONE" before it is accepted)
    closeFrameReceived,  \* the peer's close frame was read: no later message is delivered
    closeCode,           \* the status the bridge's first close() call passed
    nonce,               \* the connection closure's nonce
    handshakeComplete,   \* the connection closure's handshakeComplete
    handshakeTimeout,    \* the connection's handshake timer is armed
    ws,                  \* DigmaBridge.ws
    authenticated,       \* DigmaBridge.authenticated
    pendingRequests,     \* keys of DigmaBridge.pendingRequests
    timeout,             \* ids whose PendingRequest.timeout timer is armed
    issued,              \* ids randomUUID() has returned so far
    settled,             \* per id, the resolve/reject calls made on its promise, in order
    wire,                \* per connection, the frames the bridge has transmitted on it
    catalogs,            \* FigmaLibraryScanner.catalogs
    received,            \* the messages figma.ui.onmessage has been called with
    awaiting,            \* the commands whose handler has not settled yet
    posted,              \* the figma.ui.postMessage calls of the dispatcher, in order
    ev                   \* the handler that ran last, with its input and what it wrote

vars == <<readyState, closeFrameReceived, closeCode, nonce, handshakeComplete,
          handshakeTimeout, ws, authenticated, pendingRequests, timeout, issued,
          settled, wire, catalogs, received, awaiting, posted, ev>>

\* The state of the plugin-side dispatcher, which no bridge operation touches.
dispatcher == <<received, awaiting, posted>>

\* ---------------------------------------------------------------- frames
NoHash == <<>>
\* A LibraryCatalog: its key, its component and style lists, and payload for the
\* fields the store never looks at (fileName, scannedAt).
LibraryCatalog(fileKey, payload, components, styles) ==
    [fileKey |-> fileKey, payload |-> payload, components |-> components,
     styles |-> styles]
NoCatalog == LibraryCatalog("", "", <<>>, <<>>)

\* createHmac("sha256", key).update(nonce).digest("hex"): a function of (key, nonce)
\* that is injective on the keys and nonces of one run.
Hmac(key, n) == <<key, n>>

Hashes == {Hmac(k, n) : k \in Keys, n \in Nonces}

\* Frames the bridge writes.
Frame(type, n, id, command, params, error) ==
    [type |-> type, nonce |-> n, id |-> id, command |-> command, params |-> params,
     error |-> error]
ChallengeFrame(n) == Frame("handshake_challenge", n, NoId, "", "", "")
HandshakeOkFrame == Frame("handshake_ok", NoNonce, NoId, "", "", "")
HandshakeRequiredFrame == Frame("error", NoNonce, NoId, "", "", HandshakeRequired)
CommandFrame(id, command, params) == Frame("", NoNonce, id, command, params, "")

\* Frames the peer writes, after JSON.parse; a field that is absent holds its
\* No-value.  parsed = FALSE is a frame JSON.parse throws on.
Msg(parsed, type, hash, id, result, error, catalog) ==
    [parsed |-> parsed, type |-> type, hash |-> hash, id |-> id, result |-> result,
     error |-> error, catalog |-> catalog]
BadFrame == Msg(FALSE, "", NoHash, NoId, "", "", NoCatalog)
CatalogValues == {LibraryCatalog(k, v, <<>>, <<>>) : k \in FileKeys, v \in Payloads}
Msgs ==
    {BadFrame}
    \cup {Msg(TRUE, "handshake_response", h, NoId, "", "", NoCatalog) : h \in Hashes \cup {NoHash}}
    \cup {Msg(TRUE, "", NoHash, i, r, "", NoCatalog) : i \in Ids, r \in Results}
    \cup {Msg(TRUE, "error", NoHash, i, "", e, NoCatalog) : i \in Ids \cup {NoId}, e \in ErrorTexts}
    \cup {Msg(TRUE, "catalog_update", NoHash, i, "", "", c) : i \in Ids \cup {NoId}, c \in CatalogValues}
    \cup {Msg(TRUE, "catalog_update", NoHash, NoId, "", "", NoCatalog)}

\* The record of one handler run: which handler, on which connection, the request id
\* it concerned, the branch it took (or the error it threw) and the frames it
\* transmitted.
Event(kind, c, id, res, out) ==
    [kind |-> kind, conn |-> c, id |-> id, res |-> res, out |-> out]

\* ------------------------------------------------------------ ws library
\* WebSocket.send: transmits on an OPEN socket, drops the data on a CLOSING
\* or CLOSED one.
WsSend(w, c, f) ==
    IF readyState[c] = "OPEN" THEN [w EXCEPT ![c] = @ \cup {f}] ELSE w
Sent(c, f) == IF readyState[c] = "OPEN" THEN {<<c, f>>} ELSE {}

\* WebSocket.close(code): OPEN -> CLOSING, a no-op on a socket already closing.
WsCloseState(rs, c) == IF rs[c] = "OPEN" THEN [rs EXCEPT ![c] = "CLOSING"] ELSE rs
WsCloseCode(cc, c, code) ==
    IF readyState[c] = "OPEN" THEN [cc EXCEPT ![c] = code] ELSE cc

\* ---------------------------------------------------------------- bridge
Init ==
    /\ readyState = [c \in Conns |-> "NONE"]
    /\ closeFrameReceived = [c \in Conns |-> FALSE]
    /\ closeCode = [c \in Conns |-> NoCode]
    /\ nonce = [c \in Conns |-> NoNonce]
    /\ handshakeComplete = [c \in Conns |-> FALSE]
    /\ handshakeTimeout = [c \in Conns |-> FALSE]
    /\ ws = Null
    /\ authenticated = FALSE
    /\ pendingRequests = {}
    /\ timeout = {}
    /\ issued = {}
    /\ settled = [i \in Ids |-> <<>>]
    /\ wire = [c \in Conns |-> {}]
    /\ catalogs = <<>>
    /\ received = {}
    /\ awaiting = {}
    /\ posted = <<>>
    /\ ev = Event("init", Null, NoId, "", {})

\* randomBytes(32).toString("hex"): a value no earlier connection drew.  The values
\* are named in the order they are drawn.
Min(S) == CHOOSE x \in S : \A y \in S : x <= y
randomBytes == Min(Nonces \ {nonce[d] : d \in Conns})

\* wss.on("connection"): fresh nonce, challenge sent, handshake timer armed.
\* Connections are numbered in the order the server accepts them.
Connection(c) ==
    /\ readyState[c] = "NONE"
    /\ \A d \in Conns : d < c => readyState[d] # "NONE"
    /\ LET n == randomBytes IN
        /\ nonce' = [nonce EXCEPT ![c] = n]
        /\ wire' = [wire EXCEPT ![c] = @ \cup {ChallengeFrame(n)}]
        /\ ev' = Event("connection", c, NoId, "", {<<c, ChallengeFrame(n)>>})
    /\ readyState' = [readyState EXCEPT ![c] = "OPEN"]
    /\ handshakeTimeout' = [handshakeTimeout EXCEPT ![c] = TRUE]
    /\ UNCHANGED <<dispatcher, closeFrameReceived, closeCode, handshakeComplete, ws, authenticated,
                   pendingRequests, timeout, issued, settled, catalogs>>

\* setTimeout(..., 5000) callback of the connection.
HandshakeTimer(c) ==
    /\ handshakeTimeout[c]
    /\ handshakeTimeout' = [handshakeTimeout EXCEPT ![c] = FALSE]
    /\ IF ~handshakeComplete[c]
       THEN /\ readyState' = WsCloseState(readyState, c)
            /\ closeCode' = WsCloseCode(closeCode, c, CLOSE_HANDSHAKE_TIMEOUT)
       ELSE UNCHANGED <<readyState, closeCode>>
    /\ ev' = Event("handshakeTimer", c, NoId, "", {})
    /\ UNCHANGED <<dispatcher, closeFrameReceived, nonce, handshakeComplete, ws, authenticated,
                   pendingRequests, timeout, issued, settled, wire, catalogs>>

\* An expected hash computed from one nonce shared by all connections, the one
\* drawn last.
Expected_sharedNonce(c) ==
    Hmac(HANDSHAKE_KEY, CHOOSE n \in {nonce[d] : d \in Conns} :
                            \A d \in Conns : nonce[d] <= n)

\* const expected = createHmac("sha256", HANDSHAKE_KEY).update(nonce).digest("hex")
Expected(c) == Hmac(HANDSHAKE_KEY, nonce[c])

\* msg.hash === expected: authenticate, displace the previous connection, acknowledge.
HandshakeAccept(c, m) ==
    LET displace == ws # Null /\ ws # c /\ readyState[ws] = "OPEN" IN
    /\ handshakeComplete' = [handshakeComplete EXCEPT ![c] = TRUE]
    /\ authenticated' = TRUE
    /\ handshakeTimeout' = [handshakeTimeout EXCEPT ![c] = FALSE]
    /\ readyState' = IF displace THEN WsCloseState(readyState, ws) ELSE readyState
    /\ closeCode' = IF displace THEN WsCloseCode(closeCode, ws, CLOSE_NO_STATUS)
                                ELSE closeCode
    /\ ws' = c
    /\ wire' = WsSend(wire, c, HandshakeOkFrame)
    /\ ev' = Event("message", c, NoId, "authenticated", Sent(c, HandshakeOkFrame))
    /\ UNCHANGED <<dispatcher, closeFrameReceived, nonce, pendingRequests, timeout, issued, settled,
                   catalogs>>

\* msg.hash !== expected: ws.close(4003, "Invalid handshake").
HandshakeReject(c, m) ==
    /\ readyState' = WsCloseState(readyState, c)
    /\ closeCode' = WsCloseCode(closeCode, c, CLOSE_INVALID_HANDSHAKE)
    /\ ev' = Event("message", c, NoId, "invalid", {})
    /\ UNCHANGED <<dispatcher, closeFrameReceived, nonce, handshakeComplete, handshakeTimeout, ws,
                   authenticated, pendingRequests, timeout, issued, settled, wire,
                   catalogs>>

\* A pre-authentication branch that sends the notice and then closes the connection.
HandshakeRequiredReply_closes(c, m) ==
    /\ wire' = WsSend(wire, c, HandshakeRequiredFrame)
    /\ readyState' = WsCloseState(readyState, c)
    /\ closeCode' = WsCloseCode(closeCode, c, CLOSE_NO_STATUS)
    /\ ev' = Event("message", c, NoId, "handshake_required",
                   Sent(c, HandshakeRequiredFrame))
    /\ UNCHANGED <<dispatcher, closeFrameReceived, nonce, handshakeComplete, handshakeTimeout, ws,
                   authenticated, pendingRequests, timeout, issued, settled, catalogs>>

\* Any other message before authentication: the "Handshake required" notice.
HandshakeRequiredReply(c, m) ==
    /\ wire' = WsSend(wire, c, HandshakeRequiredFrame)
    /\ ev' = Event("message", c, NoId, "handshake_required",
                   Sent(c, HandshakeRequiredFrame))
    /\ UNCHANGED <<dispatcher, readyState, closeFrameReceived, closeCode, nonce, handshakeComplete,
                   handshakeTimeout, ws, authenticated, pendingRequests, timeout, issued,
                   settled, catalogs>>

\* private catalogs = new Map<string, LibraryCatalog>(): the entries in insertion
\* order, which is the order Map.values() iterates in.
MapHas(cats, fileKey) == \E i \in DOMAIN cats : cats[i].fileKey = fileKey

\* A store that merges the components of the catalog it replaces into the new one.
setCatalog_merges(cats, catalog) ==
    IF MapHas(cats, catalog.fileKey)
    THEN [i \in DOMAIN cats |->
            IF cats[i].fileKey = catalog.fileKey
            THEN [catalog EXCEPT !.components = cats[i].components \o @]
            ELSE cats[i]]
    ELSE Append(cats, catalog)

\* FigmaLibraryScanner.setCatalog: this.catalogs.set(catalog.fileKey, catalog).
\* Map.set replaces the value of a key it holds, in place, and appends a new key.
setCatalog(cats, catalog) ==
    IF MapHas(cats, catalog.fileKey)
    THEN [i \in DOMAIN cats |->
            IF cats[i].fileKey = catalog.fileKey THEN catalog ELSE cats[i]]
    ELSE Append(cats, catalog)

\* FigmaLibraryScanner.getCatalog: this.catalogs.get(fileKey), NoCatalog for undefined.
getCatalog(cats, fileKey) ==
    IF MapHas(cats, fileKey)
    THEN cats[CHOOSE i \in DOMAIN cats : cats[i].fileKey = fileKey]
    ELSE NoCatalog

\* A catalog branch that does not return: the push is stored and then also
\* correlated by id like a reply.
CatalogUpdate_fallsThrough(c, m) ==
    /\ catalogs' = setCatalog(catalogs, m.catalog)
    /\ ev' = Event("message", c, m.id, "catalog", {})
    /\ IF m.id \in pendingRequests
       THEN /\ timeout' = timeout \ {m.id}
            /\ pendingRequests' = pendingRequests \ {m.id}
            /\ settled' = [settled EXCEPT ![m.id] = Append(@, [kind |-> "resolve", val |-> m.result])]
       ELSE UNCHANGED <<pendingRequests, timeout, settled>>
    /\ UNCHANGED <<dispatcher, readyState, closeFrameReceived, closeCode, nonce, handshakeComplete,
                   handshakeTimeout, ws, authenticated, issued, wire>>

\* msg.type === "catalog_update" && msg.catalog: this.onCatalogUpdate?.(msg.catalog)
CatalogUpdate(c, m) ==
    /\ catalogs' = setCatalog(catalogs, m.catalog)
    /\ ev' = Event("message", c, m.id, "catalog", {})
    /\ UNCHANGED <<dispatcher, readyState, closeFrameReceived, closeCode, nonce, handshakeComplete,
                   handshakeTimeout, ws, authenticated, pendingRequests, timeout, issued,
                   settled, wire>>

\* A reply handler that forgets clearTimeout.
ClearTimeout_forgotten(t, i) == t

\* A reply handler that clears every request timer.
ClearTimeout_all(t, i) == {}

\* clearTimeout(pending.timeout)
ClearTimeout(t, i) == t \ {i}

Resolve(v) == [kind |-> "resolve", val |-> v]
Reject(v) == [kind |-> "reject", val |-> v]

\* A reply handler that completes the oldest pending entry, whatever id the reply
\* carries.
Reply_oldestFirst(c, m) ==
    LET id == Min(pendingRequests) IN
    /\ timeout' = ClearTimeout(timeout, id)
    /\ pendingRequests' = pendingRequests \ {id}
    /\ settled' = [settled EXCEPT ![id] =
          Append(@, IF m.type = "error" THEN Reject(m.error) ELSE Resolve(m.result))]
    /\ ev' = Event("message", c, id, "completed", {})
    /\ UNCHANGED <<dispatcher, readyState, closeFrameReceived, closeCode, nonce, handshakeComplete,
                   handshakeTimeout, ws, authenticated, issued, wire, catalogs>>

\* A reply handler that resolves the promise whatever the type of the reply.
Reply_alwaysResolves(c, m) ==
    /\ timeout' = ClearTimeout(timeout, m.id)
    /\ pendingRequests' = pendingRequests \ {m.id}
    /\ settled' = [settled EXCEPT ![m.id] = Append(@, Resolve(m.result))]
    /\ ev' = Event("message", c, m.id, "completed", {})
    /\ UNCHANGED <<dispatcher, readyState, closeFrameReceived, closeCode, nonce, handshakeComplete,
                   handshakeTimeout, ws, authenticated, issued, wire, catalogs>>

\* pending found: clear its timer, delete it, reject or resolve its promise.
Reply(c, m) ==
    /\ timeout' = ClearTimeout(timeout, m.id)
    /\ pendingRequests' = pendingRequests \ {m.id}
    /\ settled' = [settled EXCEPT ![m.id] =
          Append(@, IF m.type = "error" THEN Reject(m.error) ELSE Resolve(m.result))]
    /\ ev' = Event("message", c, m.id, "completed", {})
    /\ UNCHANGED <<dispatcher, readyState, closeFrameReceived, closeCode, nonce, handshakeComplete,
                   handshakeTimeout, ws, authenticated, issued, wire, catalogs>>

\* A handler that answers what it cannot use with an error notice.
Ignore_notice(c, m, why) ==
    /\ wire' = WsSend(wire, c, Frame("error", NoNonce, m.id, "", "", why))
    /\ ev' = Event("message", c, m.id, why,
                   Sent(c, Frame("error", NoNonce, m.id, "", "", why)))
    /\ UNCHANGED <<dispatcher, readyState, closeFrameReceived, closeCode, nonce, handshakeComplete,
                   handshakeTimeout, ws, authenticated, pendingRequests, timeout, issued,
                   settled, catalogs>>

\* A handler that closes the connection on what it cannot use.
Ignore_closes(c, m, why) ==
    /\ readyState' = WsCloseState(readyState, c)
    /\ closeCode' = WsCloseCode(closeCode, c, CLOSE_NO_STATUS)
    /\ ev' = Event("message", c, m.id, why, {})
    /\ UNCHANGED <<dispatcher, closeFrameReceived, nonce, handshakeComplete, handshakeTimeout, ws,
                   authenticated, pendingRequests, timeout, issued, settled, wire,
                   catalogs>>

\* Nothing but the log line: a frame that does not parse, a reply with no pending entry.
Ignore(c, m, why) ==
    /\ ev' = Event("message", c, m.id, why, {})
    /\ UNCHANGED <<dispatcher, readyState, closeFrameReceived, closeCode, nonce, handshakeComplete,
                   handshakeTimeout, ws, authenticated, pendingRequests, timeout, issued,
                   settled, wire, catalogs>>

\* The socket still emits "message": it is open, or the bridge called close() on it
\* and the peer's close frame has not arrived yet (close() only starts the closing
\* handshake; frames the peer wrote before it answers are still read and delivered).
Receiving(c) == readyState[c] \in {"OPEN", "CLOSING"} /\ ~closeFrameReceived[c]

\* A message handler that verifies every handshake response, an empty hash
\* included (the test `&& msg.hash` left out).
Message_emptyHashVerified(c, m) ==
    /\ Receiving(c)
    /\ IF ~m.parsed THEN Ignore(c, m, "parse_error")
       ELSE IF ~handshakeComplete[c]
       THEN IF m.type = "handshake_response"
            THEN IF m.hash = Expected(c) THEN HandshakeAccept(c, m)
                                         ELSE HandshakeReject(c, m)
            ELSE HandshakeRequiredReply(c, m)
       ELSE IF m.type = "catalog_update" /\ m.catalog # NoCatalog
       THEN CatalogUpdate(c, m)
       ELSE IF m.id \in pendingRequests THEN Reply(c, m)
       ELSE Ignore(c, m, "dropped")

\* A message handler that verifies a handshake response whenever one arrives,
\* without the test of handshakeComplete.
Message_handshakeAgain(c, m) ==
    /\ Receiving(c)
    /\ IF ~m.parsed THEN Ignore(c, m, "parse_error")
       ELSE IF m.type = "handshake_response" /\ m.hash # NoHash
       THEN IF m.hash = Expected(c) THEN HandshakeAccept(c, m)
                                    ELSE HandshakeReject(c, m)
       ELSE IF ~handshakeComplete[c] THEN HandshakeRequiredReply(c, m)
       ELSE IF m.type = "catalog_update" /\ m.catalog # NoCatalog
       THEN CatalogUpdate(c, m)
       ELSE IF m.id \in pendingRequests THEN Reply(c, m)
       ELSE Ignore(c, m, "dropped")

\* A message handler whose pre-authentication branch does not return: whatever is
\* not a handshake response falls through to the authenticated handling.
Message_noReturn(c, m) ==
    /\ Receiving(c)
    /\ IF ~m.parsed THEN Ignore(c, m, "parse_error")
       ELSE IF ~handshakeComplete[c] /\ m.type = "handshake_response" /\ m.hash # NoHash
       THEN IF m.hash = Expected(c) THEN HandshakeAccept(c, m)
                                    ELSE HandshakeReject(c, m)
       ELSE IF m.type = "catalog_update" /\ m.catalog # NoCatalog
       THEN CatalogUpdate(c, m)
       ELSE IF m.id \in pendingRequests THEN Reply(c, m)
       ELSE Ignore(c, m, "dropped")

\* ws.on("message")
Message(c, m) ==
    /\ Receiving(c)
    /\ IF ~m.parsed THEN Ignore(c, m, "parse_error")
       ELSE IF ~handshakeComplete[c]
       THEN IF m.type = "handshake_response" /\ m.hash # NoHash
            THEN IF m.hash = Expected(c) THEN HandshakeAccept(c, m)
                                         ELSE HandshakeReject(c, m)
            ELSE HandshakeRequiredReply(c, m)
       ELSE IF m.type = "catalog_update" /\ m.catalog # NoCatalog
       THEN CatalogUpdate(c, m)
       ELSE IF m.id \in pendingRequests THEN Reply(c, m)
       ELSE Ignore(c, m, "dropped")

\* The peer's close frame arrives: the socket answers it and reads nothing more.
PeerClose(c) ==
    /\ Receiving(c)
    /\ closeFrameReceived' = [closeFrameReceived EXCEPT ![c] = TRUE]
    /\ readyState' = WsCloseState(readyState, c)
    /\ ev' = Event("peerClose", c, NoId, "", {})
    /\ UNCHANGED <<dispatcher, closeCode, nonce, handshakeComplete, handshakeTimeout, ws,
                   authenticated, pendingRequests, timeout, issued, settled, wire,
                   catalogs>>

\* A close handler that clears the table and the timers without rejecting anything.
RejectAll_noReject ==
    /\ timeout' = timeout \ pendingRequests
    /\ settled' = settled
    /\ pendingRequests' = {}

\* A close handler that rejects and clears the table but leaves the timers armed.
RejectAll_noClearTimeout ==
    /\ timeout' = timeout
    /\ settled' = [i \in Ids |-> IF i \in pendingRequests
                                 THEN Append(settled[i], Reject(Disconnected))
                                 ELSE settled[i]]
    /\ pendingRequests' = {}

\* Reject all pending requests: clearTimeout and reject for every entry, then clear().
RejectAll ==
    /\ timeout' = timeout \ pendingRequests
    /\ settled' = [i \in Ids |-> IF i \in pendingRequests
                                 THEN Append(settled[i], Reject(Disconnected))
                                 ELSE settled[i]]
    /\ pendingRequests' = {}

\* A close handler without the test this.ws === ws.
Close_noGuard(c) ==
    /\ readyState[c] \in {"OPEN", "CLOSING"}
    /\ readyState' = [readyState EXCEPT ![c] = "CLOSED"]
    /\ closeFrameReceived' = [closeFrameReceived EXCEPT ![c] = TRUE]
    /\ handshakeTimeout' = [handshakeTimeout EXCEPT ![c] = FALSE]
    /\ ws' = Null
    /\ authenticated' = FALSE
    /\ RejectAll
    /\ ev' = Event("close", c, NoId, "", {})
    /\ UNCHANGED <<dispatcher, closeCode, nonce, handshakeComplete, issued, wire,
                   catalogs>>

\* A close handler that empties the slot but leaves the pending requests alone.
Close_keepsPending(c) ==
    /\ readyState[c] \in {"OPEN", "CLOSING"}
    /\ readyState' = [readyState EXCEPT ![c] = "CLOSED"]
    /\ closeFrameReceived' = [closeFrameReceived EXCEPT ![c] = TRUE]
    /\ handshakeTimeout' = [handshakeTimeout EXCEPT ![c] = FALSE]
    /\ IF ws = c
       THEN /\ ws' = Null
            /\ authenticated' = FALSE
            /\ UNCHANGED <<pendingRequests, timeout, settled>>
       ELSE UNCHANGED <<ws, authenticated, pendingRequests, timeout, settled>>
    /\ ev' = Event("close", c, NoId, "", {})
    /\ UNCHANGED <<dispatcher, closeCode, nonce, handshakeComplete, issued, wire,
                   catalogs>>

\* A close handler that empties the slot but leaves the authenticated flag set.
Close_keepsAuthenticated(c) ==
    /\ readyState[c] \in {"OPEN", "CLOSING"}
    /\ readyState' = [readyState EXCEPT ![c] = "CLOSED"]
    /\ closeFrameReceived' = [closeFrameReceived EXCEPT ![c] = TRUE]
    /\ handshakeTimeout' = [handshakeTimeout EXCEPT ![c] = FALSE]
    /\ IF ws = c
       THEN /\ ws' = Null
            /\ UNCHANGED authenticated
            /\ RejectAll
       ELSE UNCHANGED <<ws, authenticated, pendingRequests, timeout, settled>>
    /\ ev' = Event("close", c, NoId, "", {})
    /\ UNCHANGED <<dispatcher, closeCode, nonce, handshakeComplete, issued, wire,
                   catalogs>>

\* A close handler that rejects the pending requests whichever connection closes.
Close_anyConnection(c) ==
    /\ readyState[c] \in {"OPEN", "CLOSING"}
    /\ readyState' = [readyState EXCEPT ![c] = "CLOSED"]
    /\ closeFrameReceived' = [closeFrameReceived EXCEPT ![c] = TRUE]
    /\ handshakeTimeout' = [handshakeTimeout EXCEPT ![c] = FALSE]
    /\ IF ws = c
       THEN ws' = Null /\ authenticated' = FALSE
       ELSE UNCHANGED <<ws, authenticated>>
    /\ RejectAll
    /\ ev' = Event("close", c, NoId, "", {})
    /\ UNCHANGED <<dispatcher, closeCode, nonce, handshakeComplete, issued, wire,
                   catalogs>>

\* ws.on("close"): the socket is gone (after a closing handshake, or abruptly).
Close(c) ==
    /\ readyState[c] \in {"OPEN", "CLOSING"}
    /\ readyState' = [readyState EXCEPT ![c] = "CLOSED"]
    /\ closeFrameReceived' = [closeFrameReceived EXCEPT ![c] = TRUE]
    /\ handshakeTimeout' = [handshakeTimeout EXCEPT ![c] = FALSE]
    /\ IF ws = c
       THEN /\ ws' = Null
            /\ authenticated' = FALSE
            /\ RejectAll
       ELSE UNCHANGED <<ws, authenticated, pendingRequests, timeout, settled>>
    /\ ev' = Event("close", c, NoId, "", {})
    /\ UNCHANGED <<dispatcher, closeCode, nonce, handshakeComplete, issued, wire,
                   catalogs>>

\* An id generator that can hand out an id already in use.
randomUUID_reused == Min(Ids)

\* randomUUID(): an id no earlier command drew, named in the order they are drawn.
randomUUID == Min(Ids \ issued)

\* An isConnected that does not look at readyState.
isConnected_noReadyState == ws # Null

\* get isConnected()
isConnected == ws # Null /\ readyState[ws] = "OPEN"

\* A sendCommand that serializes the command without its params.
sendCommand_dropsParams(command, params) ==
    IF ~isConnected
    THEN /\ ev' = Event("sendCommand", Null, NoId, NotConnected, {})
         /\ UNCHANGED <<dispatcher, readyState, closeFrameReceived, closeCode, nonce,
                        handshakeComplete, handshakeTimeout, ws, authenticated,
                        pendingRequests, timeout, issued, settled, wire, catalogs>>
    ELSE LET id == randomUUID IN
         /\ Ids \ issued # {}
         /\ issued' = issued \cup {id}
         /\ timeout' = timeout \cup {id}
         /\ pendingRequests' = pendingRequests \cup {id}
         /\ wire' = WsSend(wire, ws, CommandFrame(id, command, ""))
         /\ ev' = Event("sendCommand", ws, id, "pending",
                        Sent(ws, CommandFrame(id, command, "")))
         /\ UNCHANGED <<dispatcher, readyState, closeFrameReceived, closeCode, nonce,
                        handshakeComplete, handshakeTimeout, ws, authenticated, settled,
                        catalogs>>

\* A sendCommand that registers the request without arming its timer.
sendCommand_noTimer(command, params) ==
    IF ~isConnected
    THEN /\ ev' = Event("sendCommand", Null, NoId, NotConnected, {})
         /\ UNCHANGED <<dispatcher, readyState, closeFrameReceived, closeCode, nonce,
                        handshakeComplete, handshakeTimeout, ws, authenticated,
                        pendingRequests, timeout, issued, settled, wire, catalogs>>
    ELSE LET id == randomUUID IN
         /\ Ids \ issued # {}
         /\ issued' = issued \cup {id}
         /\ timeout' = timeout
         /\ pendingRequests' = pendingRequests \cup {id}
         /\ wire' = WsSend(wire, ws, CommandFrame(id, command, params))
         /\ ev' = Event("sendCommand", ws, id, "pending",
                        Sent(ws, CommandFrame(id, command, params)))
         /\ UNCHANGED <<dispatcher, readyState, closeFrameReceived, closeCode, nonce,
                        handshakeComplete, handshakeTimeout, ws, authenticated, settled,
                        catalogs>>

\* DigmaBridge.sendCommand
sendCommand(command, params) ==
    IF ~isConnected
    THEN /\ ev' = Event("sendCommand", Null, NoId, NotConnected, {})
         /\ UNCHANGED <<dispatcher, readyState, closeFrameReceived, closeCode, nonce,
                        handshakeComplete, handshakeTimeout, ws, authenticated,
                        pendingRequests, timeout, issued, settled, wire, catalogs>>
    ELSE LET id == randomUUID IN
         /\ Ids \ issued # {}
         /\ issued' = issued \cup {id}
         /\ timeout' = timeout \cup {id}
         /\ pendingRequests' = pendingRequests \cup {id}
         /\ wire' = WsSend(wire, ws, CommandFrame(id, command, params))
         /\ ev' = Event("sendCommand", ws, id, "pending",
                        Sent(ws, CommandFrame(id, command, params)))
         /\ UNCHANGED <<dispatcher, readyState, closeFrameReceived, closeCode, nonce,
                        handshakeComplete, handshakeTimeout, ws, authenticated, settled,
                        catalogs>>

\* A timer callback that rejects without deleting the entry.
RequestTimer_noDelete(id) ==
    /\ id \in timeout
    /\ timeout' = timeout \ {id}
    /\ pendingRequests' = pendingRequests
    /\ settled' = [settled EXCEPT ![id] = Append(@, Reject(TimedOut))]
    /\ ev' = Event("requestTimer", Null, id, "", {})
    /\ UNCHANGED <<dispatcher, readyState, closeFrameReceived, closeCode, nonce, handshakeComplete,
                   handshakeTimeout, ws, authenticated, issued, wire, catalogs>>

\* The setTimeout(..., COMMAND_TIMEOUT_MS) callback of request id.
RequestTimer(id) ==
    /\ id \in timeout
    /\ timeout' = timeout \ {id}
    /\ pendingRequests' = pendingRequests \ {id}
    /\ settled' = [settled EXCEPT ![id] = Append(@, Reject(TimedOut))]
    /\ ev' = Event("requestTimer", Null, id, "", {})
    /\ UNCHANGED <<dispatcher, readyState, closeFrameReceived, closeCode, nonce, handshakeComplete,
                   handshakeTimeout, ws, authenticated, issued, wire, catalogs>>

\* ------------------------------------------------------------ tool helpers
\* JSON.stringify(result, null, 2): the JSON text of the value.
JSONstringify(v) == "json:" \o v

\* ok(result): the success envelope.
ok(result) == [content |-> <<[type |-> "text", text |-> JSONstringify(result)]>>]

\* err(error): the error envelope.
err(error) == [content |-> <<[type |-> "text", text |-> "Error: " \o error]>>,
               isError |-> TRUE]

\* A run without the catch: a failure of sendCommand leaves the tool callback as
\* an exception.
run_noCatch(s) == IF s.kind = "resolve" THEN ok(s.val) ELSE [thrown |-> s.val]

\* run(command, params): what the tool callback returns once the promise of
\* sendCommand has settled as s (a throw of sendCommand is a rejection of it).
run(s) == IF s.kind = "resolve" THEN ok(s.val) ELSE err(s.val)

\* { connected: bridge.isConnected }
StatusResult(connected) == IF connected THEN "{connected: true}" ELSE "{connected: false}"

\* A status tool that reports the authenticated flag instead of isConnected.
get_connection_status_authenticatedFlag ==
    /\ ev' = Event("get_connection_status", Null, NoId,
                   ok(StatusResult(authenticated)).content[1].text, {})
    /\ UNCHANGED <<dispatcher, readyState, closeFrameReceived, closeCode, nonce, handshakeComplete,
                   handshakeTimeout, ws, authenticated, pendingRequests, timeout, issued,
                   settled, wire, catalogs>>

\* The get_connection_status tool: ok({ connected: bridge.isConnected }).  The
\* text of the envelope it returns is recorded as the outcome.
get_connection_status ==
    /\ ev' = Event("get_connection_status", Null, NoId,
                   ok(StatusResult(isConnected)).content[1].text, {})
    /\ UNCHANGED <<dispatcher, readyState, closeFrameReceived, closeCode, nonce, handshakeComplete,
                   handshakeTimeout, ws, authenticated, pendingRequests, timeout, issued,
                   settled, wire, catalogs>>

Next ==
    \/ \E c \in Conns : Connection(c)
    \/ \E c \in Conns : HandshakeTimer(c)
    \/ \E c \in Conns, m \in Msgs : Message(c, m)
    \/ \E c \in Conns : PeerClose(c)
    \/ \E c \in Conns : Close(c)
    \/ \E command \in Commands, params \in Params : sendCommand(command, params)
    \/ \E id \in Ids : RequestTimer(id)
    \/ get_connection_status

Spec == Init /\ [][Next]_vars

\* Each request timer that stays armed eventually fires (Node's timer queue).
LiveSpec == Spec /\ \A id \in Ids : WF_vars(RequestTimer(id))

\* ------------------------------------------------------- library scanner
\* Strings the search looks into are sequences of characters.
NoStr == <<>>

\* String.prototype.toLowerCase, character by character.
LowerChar(ch) == IF ch = "A" THEN "a" ELSE IF ch = "B" THEN "b" ELSE ch

\* A toLowerCase that leaves the string as it is.
toLowerCase_asIs(str) == str

\* str.toLowerCase()
toLowerCase(str) == [i \in DOMAIN str |-> LowerChar(str[i])]

\* str.includes(q)
includes(str, q) ==
    \E i \in 1..(Len(str) - Len(q) + 1) : SubSeq(str, i, i + Len(q) - 1) = q

\* A LibraryComponent; an optional field that is absent (or empty) holds NoStr.
LibraryComponent(name, description, componentSetName, containingFrame) ==
    [name |-> name, description |-> description,
     componentSetName |-> componentSetName, containingFrame |-> containingFrame]

\* The components, styles, catalogs and queries the store is driven with.
Components ==
    { LibraryComponent(<<"A", "b">>, NoStr, NoStr, NoStr),
      LibraryComponent(<<"c">>, <<"a">>, NoStr, NoStr),
      LibraryComponent(<<"c">>, NoStr, <<"A">>, NoStr),
      LibraryComponent(<<"c">>, NoStr, NoStr, <<"B", "a">>) }
ComponentLists == UNION {[1..n -> Components] : n \in 0..MaxComponents}
StyleLists == {<<"s1">>, <<"s2", "s1">>}
ScannerFileKeys == {"f1", "f2"}
ScannerCatalogs ==
    {LibraryCatalog(k, v, cs, ss) :
        k \in ScannerFileKeys, v \in Payloads, cs \in ComponentLists, ss \in StyleLists}
Queries == UNION {[1..n -> {"a", "A", "b"}] : n \in 0..MaxQueryLen}

\* The test of searchComponents on one component, q already in lower case.
Hit(comp, q) ==
    \/ includes(toLowerCase(comp.name), q)
    \/ includes(toLowerCase(comp.description), q)
    \/ (comp.componentSetName # NoStr /\ includes(toLowerCase(comp.componentSetName), q))
    \/ (comp.containingFrame # NoStr /\ includes(toLowerCase(comp.containingFrame), q))

\* The inner loop of searchComponents: push the hits of one catalog onto results,
\* in the order of the catalog's components.
SearchCatalog(results, comps, q) ==
    LET Test(comp) == Hit(comp, q)
    IN results \o SelectSeq(comps, Test)

\* FigmaLibraryScanner.searchComponents
searchComponents(cats, query) ==
    LET q == toLowerCase(query)
        acc[i \in 0..Len(cats)] ==
            IF i = 0 THEN <<>> ELSE SearchCatalog(acc[i - 1], cats[i].components, q)
    IN acc[Len(cats)]

\* A getAllComponents that walks the catalogs newest first.
getAllComponents_newestFirst(cats) ==
    LET acc[i \in 0..Len(cats)] ==
            IF i = 0 THEN <<>> ELSE acc[i - 1] \o cats[Len(cats) + 1 - i].components
    IN acc[Len(cats)]

\* FigmaLibraryScanner.getAllComponents
getAllComponents(cats) ==
    LET acc[i \in 0..Len(cats)] ==
            IF i = 0 THEN <<>> ELSE acc[i - 1] \o cats[i].components
    IN acc[Len(cats)]

\* FigmaLibraryScanner.getAllStyles
getAllStyles(cats) ==
    LET acc[i \in 0..Len(cats)] ==
            IF i = 0 THEN <<>> ELSE acc[i - 1] \o cats[i].styles
    IN acc[Len(cats)]

\* The record of one call of a scanner method: its argument and what it returned.
Call(kind, arg, ret) == [kind |-> kind, arg |-> arg, ret |-> ret]

BridgeIdle ==
    UNCHANGED <<dispatcher, readyState, closeFrameReceived, closeCode, nonce, handshakeComplete,
                handshakeTimeout, ws, authenticated, pendingRequests, timeout, issued,
                settled, wire>>

\* libraryScanner.setCatalog(catalog)
LibrarySetCatalog(catalog) ==
    /\ catalogs' = setCatalog(catalogs, catalog)
    /\ ev' = Call("setCatalog", catalog,
                  IF MapHas(catalogs, catalog.fileKey) THEN "replaced" ELSE "added")
    /\ BridgeIdle

\* libraryScanner.getCatalog(fileKey)
LibraryGetCatalog(fileKey) ==
    /\ ev' = Call("getCatalog", fileKey, getCatalog(catalogs, fileKey))
    /\ UNCHANGED catalogs
    /\ BridgeIdle

\* libraryScanner.searchComponents(query)
LibrarySearchComponents(query) ==
    /\ ev' = Call("searchComponents", query, searchComponents(catalogs, query))
    /\ UNCHANGED catalogs
    /\ BridgeIdle

\* libraryScanner.getAllComponents()
LibraryGetAllComponents ==
    /\ ev' = Call("getAllComponents", <<>>, getAllComponents(catalogs))
    /\ UNCHANGED catalogs
    /\ BridgeIdle

\* libraryScanner.getAllStyles()
LibraryGetAllStyles ==
    /\ ev' = Call("getAllStyles", <<>>, getAllStyles(catalogs))
    /\ UNCHANGED catalogs
    /\ BridgeIdle

ScannerNext ==
    \/ \E catalog \in ScannerCatalogs : LibrarySetCatalog(catalog)
    \/ \E fileKey \in ScannerFileKeys : LibraryGetCatalog(fileKey)
    \/ \E query \in Queries : LibrarySearchComponents(query)
    \/ LibraryGetAllComponents
    \/ LibraryGetAllStyles

\* The catalog store driven through its methods, the bridge left as constructed.
ScannerSpec == Init /\ [][ScannerNext]_vars

\* ------------------------------------------------------ library info tool
\* JSON.stringify(result, null, 2) of an object or array: its text is kept as the
\* value it denotes, marked as JSON text.
JSONstringifyObject(v) == [json |-> v]
\* ok(result) of an object or array.
okObject(result) ==
    [content |-> <<[type |-> "text", text |-> JSONstringifyObject(result)]>>]

\* FigmaLibraryScanner.hasAnyCatalog
hasAnyCatalog(cats) == Len(cats) > 0
\* FigmaLibraryScanner.getAllCatalogs: the values in the Map's iteration order.
getAllCatalogs(cats) == [i \in 1..Len(cats) |-> cats[i]]

\* The text of get_library_info's error.
NoLibraryLoaded ==
    "No design system library is loaded yet. Please open the Digma plugin in Figma, expand the 'Design System Library' section, enter your Figma access token and library file key, and click 'Scan Library'."
\* The numbers of components and styles of a catalog get_library_info returns at most.
InfoComponentLimit == 200
InfoStyleLimit == 100
\* arr.slice(start, end)
slice(arr, start, end) ==
    SubSeq(arr, start + 1, IF end < Len(arr) THEN end ELSE Len(arr))
\* The object get_library_info makes of one catalog.
LibraryInfo(c) ==
    [fileKey |-> c.fileKey, payload |-> c.payload,
     componentCount |-> Len(c.components), styleCount |-> Len(c.styles),
     components |-> slice(c.components, 0, InfoComponentLimit),
     styles |-> slice(c.styles, 0, InfoStyleLimit)]

\* A get_library_info without the hasAnyCatalog test.
get_library_info_noTest ==
    /\ ev' = Call("get_library_info", <<>>,
                  okObject([i \in 1..Len(catalogs) |->
                               LibraryInfo(getAllCatalogs(catalogs)[i])]))
    /\ UNCHANGED catalogs
    /\ BridgeIdle

\* The get_library_info tool; the envelope it returns is recorded.
get_library_info ==
    /\ ev' = Call("get_library_info", <<>>,
                  IF ~hasAnyCatalog(catalogs)
                  THEN err(NoLibraryLoaded)
                  ELSE okObject([i \in 1..Len(catalogs) |->
                                    LibraryInfo(getAllCatalogs(catalogs)[i])]))
    /\ UNCHANGED catalogs
    /\ BridgeIdle

\* The store and the library info tool.
InfoNext ==
    \/ \E catalog \in ScannerCatalogs : LibrarySetCatalog(catalog)
    \/ \E fileKey \in ScannerFileKeys : LibraryGetCatalog(fileKey)
    \/ get_library_info

InfoSpec == Init /\ [][InfoNext]_vars

\* ------------------------------------------------------------ search tool
\* The number of components search_library_components returns at most.
SearchLimit == 50

\* Catalogs below and above the limit: n components, two kinds taking turns.
Alternating(n, first, second) == [i \in 1..n |-> IF i % 2 = 1 THEN first ELSE second]
LargeComponentLists ==
    LET named == LibraryComponent(<<"A", "b">>, NoStr, NoStr, NoStr)
        described == LibraryComponent(<<"c">>, <<"a">>, NoStr, NoStr)
    IN {Alternating(SmallCatalog, named, described),
        Alternating(LargeCatalog, named, described),
        Alternating(LargeCatalog, described, named)}
LargeCatalogs ==
    {LibraryCatalog(k, "v1", cs, <<>>) : k \in ScannerFileKeys, cs \in LargeComponentLists}
SearchQueries == {<<>>, <<"a">>, <<"B">>, <<"b", "a">>}

\* A search tool whose count is the length of the page it returns.
search_library_components_countsPage(query) ==
    LET results == searchComponents(catalogs, query)
    IN /\ ev' = Call("search_library_components", query,
                     okObject([count |-> Len(slice(results, 0, SearchLimit)),
                               components |-> slice(results, 0, SearchLimit)]))
       /\ UNCHANGED catalogs
       /\ BridgeIdle

\* The search_library_components tool; the envelope it returns is recorded.
search_library_components(query) ==
    LET results == searchComponents(catalogs, query)
    IN /\ ev' = Call("search_library_components", query,
                     okObject([count |-> Len(results),
                               components |-> slice(results, 0, SearchLimit)]))
       /\ UNCHANGED catalogs
       /\ BridgeIdle

SearchNext ==
    \/ \E c \in Conns : Connection(c)
    \/ \E c \in Conns :
           Message(c, Msg(TRUE, "handshake_response", Expected(c), NoId, "", "", NoCatalog))
    \/ \E catalog \in LargeCatalogs : LibrarySetCatalog(catalog)
    \/ \E query \in SearchQueries : search_library_components(query)

\* The search tool over large catalogs, with a peer that connects and
\* authenticates meanwhile.
SearchSpec == Init /\ [][SearchNext]_vars

\* ----------------------------------------------------- plugin dispatcher
\* `undefined`, what a property lookup that finds nothing yields.
Undefined == "undefined"
\* The names assigned on `handlers` (one stands for the twenty-two of the plugin).
handlers == {"create_frame"}
\* `handlers` is a plain object, so a lookup also finds what Object.prototype holds.
ObjectPrototype == {"toString"}
CommandNames == handlers \cup ObjectPrototype \cup {"no_such_command"}
\* The messages the UI page hands to figma.ui.onmessage, named in arrival order.
MessageIds == 1..MaxMessages
PluginMessage(type, id, command) == [type |-> type, id |-> id, command |-> command]
PluginMessages ==
    {PluginMessage("command", id, command) : id \in MessageIds, command \in CommandNames}
    \cup {PluginMessage("ui_ready", id, "") : id \in MessageIds}

\* handlers[msg.command]
Lookup(command) ==
    IF command \in handlers THEN "handler"
    ELSE IF command \in ObjectPrototype THEN "builtin"
    ELSE Undefined

\* How a call of what the lookup found can settle: a handler returns its result
\* or throws, Object.prototype.toString returns the tag of its receiver, and a
\* call of `undefined` throws.
Return(result) == [how |-> "return", value |-> result]
Throw(message) == [how |-> "throw", value |-> message]
Outcomes(command) ==
    IF Lookup(command) = "handler"
    THEN {Return(result) : result \in Results} \cup {Throw(e) : e \in ErrorTexts}
    ELSE IF Lookup(command) = "builtin"
    THEN {Return("[object Undefined]")}
    ELSE {Throw("handler is not a function")}

\* The argument of the three figma.ui.postMessage calls.
Response(id, result) ==
    [type |-> "response", id |-> id, result |-> result, error |-> ""]
ErrorResponse(id, error) ==
    [type |-> "error_response", id |-> id, result |-> "", error |-> error]

PluginIdle ==
    UNCHANGED <<readyState, closeFrameReceived, closeCode, nonce, handshakeComplete,
                handshakeTimeout, ws, authenticated, pendingRequests, timeout, issued,
                settled, wire, catalogs, ev>>

\* The mutant of OnMessage that does not return after the "Unknown command" post.
OnMessage_noReturn(msg) ==
    /\ msg \notin received
    /\ msg.id = Cardinality(received) + 1
    /\ received' = received \cup {msg}
    /\ IF msg.type # "command"
       THEN UNCHANGED <<awaiting, posted>>
       ELSE IF Lookup(msg.command) = Undefined
       THEN /\ posted' = Append(posted, ErrorResponse(msg.id, "Unknown command: " \o msg.command))
            /\ awaiting' = awaiting \cup {msg}
       ELSE /\ awaiting' = awaiting \cup {msg}
            /\ UNCHANGED posted
    /\ PluginIdle

\* figma.ui.onmessage, up to its return or to the await of the handler's promise.
OnMessage(msg) ==
    /\ msg \notin received
    /\ msg.id = Cardinality(received) + 1
    /\ received' = received \cup {msg}
    /\ IF msg.type # "command"
       THEN UNCHANGED <<awaiting, posted>>
       ELSE IF Lookup(msg.command) = Undefined
       THEN /\ posted' = Append(posted, ErrorResponse(msg.id, "Unknown command: " \o msg.command))
            /\ UNCHANGED awaiting
       ELSE /\ awaiting' = awaiting \cup {msg}
            /\ UNCHANGED posted
    /\ PluginIdle

\* figma.ui.onmessage resumed when the awaited promise settles: the try block's
\* post on a return, the catch block's post on a throw.
HandlerSettles(msg, outcome) ==
    /\ msg \in awaiting
    /\ outcome \in Outcomes(msg.command)
    /\ awaiting' = awaiting \ {msg}
    /\ posted' = Append(posted, IF outcome.how = "return"
                                THEN Response(msg.id, outcome.value)
                                ELSE ErrorResponse(msg.id, outcome.value))
    /\ UNCHANGED received
    /\ PluginIdle

PluginNext ==
    \/ \E msg \in PluginMessages : OnMessage(msg)
    \/ \E msg \in PluginMessages :
           \E outcome \in Outcomes(msg.command) : HandlerSettles(msg, outcome)

\* The plugin's dispatcher driven by the UI page and by its handlers.
PluginSpec == Init /\ [][PluginNext]_vars

\* ---------------------------------------------------------------- claims
IsCommand(f) == f.type = "" /\ f.id # NoId
ValidResponse(c) == Msg(TRUE, "handshake_response", Expected(c), NoId, "", "", NoCatalog)
\* Ids of the commands transmitted on connection c.
CommandsOn(c) == {f.id : f \in {g \in wire[c] : IsCommand(g)}}

\* C1: a valid handshake response delivered by a connection that has not completed
\* its handshake leaves that connection installed as the active one, with a
\* handshake_ok transmitted on it and the previous open active connection closing.
C1_ValidResponseActivates ==
    [][\A c \in Conns :
         (~handshakeComplete[c] /\ Message(c, ValidResponse(c)))
         => /\ ws' = c
            /\ HandshakeOkFrame \in wire'[c]
            /\ (ws # Null /\ ws # c /\ readyState[ws] = "OPEN")
                  => readyState'[ws] = "CLOSING"]_vars

\* C2: a connection closed with the invalid-handshake status is never authenticated
\* and never installed as the active connection.
C2_InvalidNeverActive ==
    \A c \in Conns :
        closeCode[c] = CLOSE_INVALID_HANDSHAKE => ~handshakeComplete[c] /\ ws # c

\* C3: a connection closed with the handshake-timeout status is never authenticated
\* and never installed as the active connection.
C3_TimedOutNeverActive ==
    \A c \in Conns :
        closeCode[c] = CLOSE_HANDSHAKE_TIMEOUT => ~handshakeComplete[c] /\ ws # c

\* C4: no command is ever transmitted on a connection that has not completed the
\* handshake, and a message received from such a connection leaves the pending
\* table, the request timers, the promises and the catalog store untouched.
C4_NoTrafficBeforeHandshake ==
    [][/\ \A c \in Conns : ~handshakeComplete'[c] => CommandsOn(c)' = {}
       /\ \A c \in Conns, m \in Msgs :
            (~handshakeComplete[c] /\ Message(c, m))
            => UNCHANGED <<pendingRequests, timeout, settled, catalogs>>]_vars

C4_Witness ==
    /\ ev.kind = "message" /\ ev.res = "handshake_required"
    /\ ~handshakeComplete[ev.conn] /\ pendingRequests # {} /\ ws # ev.conn

\* A connection is active when it is authenticated and either commands can be sent
\* to it or the messages it delivers are handled as replies and catalog pushes.
Active(c) ==
    /\ handshakeComplete[c]
    /\ \/ (ws = c /\ readyState[c] = "OPEN")
       \/ Receiving(c)

\* The bridge closed the connection for a failed handshake (timeout or invalid hash).
HandshakeFailed(c) == closeCode[c] \in {CLOSE_HANDSHAKE_TIMEOUT, CLOSE_INVALID_HANDSHAKE}

\* C5: at most one connection is active.  Counted over the connections whose
\* handshake never failed, so that a violation is displacement's own and does not
\* rest on a connection that authenticated after its handshake had failed.
C5_AtMostOneActive ==
    Cardinality({c \in Conns : Active(c) /\ ~HandshakeFailed(c)}) <= 1

\* C6: sendCommand with no active connection fails with NotConnected, registers
\* nothing, arms no timer and transmits nothing.
C6_NotConnected ==
    [][\A command \in Commands, params \in Params :
         ((ws = Null \/ readyState[ws] # "OPEN") /\ sendCommand(command, params))
         => /\ ev'.kind = "sendCommand" /\ ev'.res = NotConnected /\ ev'.out = {}
            /\ UNCHANGED <<pendingRequests, timeout, issued, settled, wire>>]_vars

C6_Witness ==
    /\ ev.kind = "sendCommand" /\ ev.res = NotConnected
    /\ ws # Null /\ readyState[ws] = "CLOSING"

\* C7: no promise of a request is settled more than once.
C7_SettledAtMostOnce == \A id \in Ids : Len(settled[id]) <= 1

C7_Witness ==
    /\ ev.kind = "message" /\ ev.res = "dropped" /\ ev.id # NoId
    /\ Len(settled[ev.id]) = 1

\* C8: with request timers that fire unless cancelled, every registered request
\* is eventually settled and out of the pending table.
C8_NeverDangling ==
    \A id \in Ids :
        (id \in pendingRequests) ~> (id \notin pendingRequests /\ settled[id] # <<>>)

C8_Witness ==
    \E id \in Ids, c \in Conns :
        /\ id \in CommandsOn(c) /\ ws # c /\ readyState[c] = "CLOSED"
        /\ ev.kind = "requestTimer" /\ ev.id = id
        /\ settled[id] = <<Reject(TimedOut)>>

\* C9: processing the close of the active connection rejects every pending
\* request with the disconnect error, disarms their timers, empties the table and
\* empties the active-connection slot.
C9_CloseRejectsAll ==
    [][\A c \in Conns :
         (ws = c /\ Close(c))
         => /\ \A id \in pendingRequests :
                 /\ settled'[id] = Append(settled[id], Reject(Disconnected))
                 /\ id \notin timeout'
            /\ pendingRequests' = {}
            /\ ws' = Null /\ ~authenticated']_vars

C9_Witness ==
    /\ ev.kind = "close" /\ ws = Null /\ pendingRequests = {} /\ timeout = {}
    /\ \A id \in Ids : id \in CommandsOn(ev.conn) /\ settled[id] = <<Reject(Disconnected)>>

\* C10: a request timer firing while its request is pending rejects the request
\* with the timeout error and removes its entry; no frame is transmitted.
C10_TimerRejects ==
    [][\A id \in Ids :
         (id \in pendingRequests /\ RequestTimer(id))
         => /\ settled'[id] = Append(settled[id], Reject(TimedOut))
            /\ id \notin pendingRequests'
            /\ wire' = wire /\ ev'.out = {}]_vars

C10_Witness ==
    /\ ev.kind = "requestTimer" /\ settled[ev.id] = <<Reject(TimedOut)>>
    /\ ws # Null /\ readyState[ws] = "OPEN" /\ ev.id \in CommandsOn(ws)

\* A parsed frame that is not a catalog push: the handler looks its id up.
IsReply(m) == m.parsed /\ ~(m.type = "catalog_update" /\ m.catalog # NoCatalog)

\* C11: a reply on an authenticated connection whose id has no pending entry is
\* dropped: the table, the timers, the promises, the active connection, the sockets
\* and the catalog store are unchanged and no frame is transmitted.
C11_UnknownReplyDropped ==
    [][\A c \in Conns, m \in Msgs :
         (handshakeComplete[c] /\ IsReply(m) /\ m.id \notin pendingRequests
            /\ Message(c, m))
         => /\ UNCHANGED <<pendingRequests, timeout, settled, ws, authenticated,
                           readyState, closeCode, handshakeComplete, wire, catalogs>>
            /\ ev'.out = {}]_vars

C11_Witness ==
    /\ ev.kind = "message" /\ ev.res = "dropped" /\ ev.id # NoId
    /\ settled[ev.id] = <<Reject(TimedOut)>>
    /\ ws = ev.conn /\ ev.id \in CommandsOn(ws)

\* C12: with two commands outstanding on one connection, the reply for the one
\* issued later, delivered first, completes it then and there while the one issued
\* earlier stays pending and unsettled.
C12_RepliesInAnyOrder ==
    [][\A c \in Conns, a \in Ids, b \in Ids, m \in Msgs :
         (a < b /\ {a, b} \subseteq pendingRequests /\ {a, b} \subseteq CommandsOn(c)
            /\ handshakeComplete[c] /\ IsReply(m) /\ m.id = b /\ Message(c, m))
         => /\ settled'[b] = <<IF m.type = "error" THEN Reject(m.error)
                                                    ELSE Resolve(m.result)>>
            /\ b \notin pendingRequests'
            /\ a \in pendingRequests' /\ a \in timeout' /\ settled'[a] = <<>>]_vars

C12_Witness ==
    \E a \in Ids, b \in Ids :
        /\ a < b /\ ws # Null /\ {a, b} \subseteq CommandsOn(ws)
        /\ ev.kind = "message" /\ ev.res = "completed" /\ ev.id = b /\ ev.conn = ws
        /\ settled[b] # <<>> /\ settled[b][1].kind = "resolve"
        /\ a \in pendingRequests /\ settled[a] = <<>>

\* C13: a request completed by a reply or by its own timer leaves every other
\* pending request as it was: in the table, its timer armed, its promise untouched.
C13_OthersUntouched ==
    [][\A id \in Ids :
         (id \in pendingRequests
            /\ \/ RequestTimer(id)
               \/ \E c \in Conns, m \in Msgs :
                    handshakeComplete[c] /\ IsReply(m) /\ m.id = id /\ Message(c, m))
         => \A other \in pendingRequests \ {id} :
               /\ other \in pendingRequests'
               /\ other \in timeout => other \in timeout'
               /\ settled'[other] = settled[other]]_vars

C13_Witness ==
    \E id \in Ids, other \in Ids :
        /\ id # other
        /\ ev.kind = "message" /\ ev.res = "completed" /\ ev.id = id
        /\ settled[id] # <<>> /\ settled[id][1].kind = "reject"
        /\ other \in pendingRequests /\ other \in timeout /\ settled[other] = <<>>

\* A handshake_response whose hash is present and is not the expected one.
IsInvalidResponse(c, m) ==
    m.parsed /\ m.type = "handshake_response" /\ m.hash # NoHash /\ m.hash # Expected(c)

\* The handshake of connection c fails in this step (invalid hash, handshake
\* timer), or the close that follows such a failure is processed.
HandshakeFailureStep(c) ==
    \/ \E m \in Msgs : ~handshakeComplete[c] /\ IsInvalidResponse(c, m) /\ Message(c, m)
    \/ ~handshakeComplete[c] /\ HandshakeTimer(c)
    \/ HandshakeFailed(c) /\ Close(c)

\* C14: a handshake failure on one connection, and the close that follows it,
\* leaves an active connection other than the failing one installed and in the
\* same socket state, and neither settles nor removes any request written on
\* another connection.
C14_FailureLeavesActiveAlone ==
    [][\A c \in Conns :
         HandshakeFailureStep(c)
         => /\ \A d \in Conns \ {c} :
                 ws = d => ws' = d /\ readyState'[d] = readyState[d]
            /\ \A id \in pendingRequests \ CommandsOn(c) :
                 id \in pendingRequests' /\ settled'[id] = settled[id]]_vars

\* A well-formed message that is not a handshake response.
IsOtherMessage(m) == m.parsed /\ m.type # "handshake_response"

\* Nothing the bridge keeps changes: socket states, close codes, handshake status,
\* handshake timers, the active slot, the pending table, its timers and promises.
BridgeStateUnchanged ==
    UNCHANGED <<readyState, closeCode, closeFrameReceived, handshakeComplete,
                handshakeTimeout, nonce, ws, authenticated, pendingRequests, timeout,
                issued, settled, catalogs>>

\* The bridge calls close() on connection c in this step.
BridgeCloses(c) == closeCode[c] = NoCode /\ closeCode'[c] # NoCode

\* C15 (as stated): every well-formed non-handshake message received before the
\* connection's authentication completes is answered with the "Handshake required"
\* notice, and changes nothing else.
C15_NoticeAlwaysSent ==
    [][\A c \in Conns, m \in Msgs :
         (~handshakeComplete[c] /\ IsOtherMessage(m) /\ Message(c, m))
         => /\ ev'.out = {<<c, HandshakeRequiredFrame>>}
            /\ HandshakeRequiredFrame \in wire'[c]
            /\ BridgeStateUnchanged]_vars

\* C15 (amended): such a message is answered with the notice when the socket is
\* still open, and with nothing when the bridge has already closed it (the send is
\* dropped); in both cases the connection is not closed, not authenticated, and no
\* bridge state changes.  The bridge calls close() on an unauthenticated
\* connection only from its handshake timer (4001) or on an invalid hash (4003).
C15_NoticeWhileOpen ==
    [][/\ \A c \in Conns, m \in Msgs :
            (~handshakeComplete[c] /\ IsOtherMessage(m) /\ Message(c, m))
            => /\ readyState[c] = "OPEN"
                  => /\ ev'.out = {<<c, HandshakeRequiredFrame>>}
                     /\ wire' = [wire EXCEPT ![c] = @ \cup {HandshakeRequiredFrame}]
               /\ readyState[c] # "OPEN" => ev'.out = {} /\ wire' = wire
               /\ BridgeStateUnchanged
       /\ \A c \in Conns :
            (~handshakeComplete[c] /\ BridgeCloses(c))
            => \/ /\ ev'.kind = "handshakeTimer" /\ ev'.conn = c
                  /\ closeCode'[c] = CLOSE_HANDSHAKE_TIMEOUT
               \/ /\ ev'.kind = "message" /\ ev'.res = "invalid" /\ ev'.conn = c
                  /\ closeCode'[c] = CLOSE_INVALID_HANDSHAKE]_vars

\* A notice went out on an open, unauthenticated connection while another
\* connection is active and has a request outstanding.
C15_Witness ==
    /\ ev.kind = "message" /\ ev.res = "handshake_required"
    /\ ev.out = {<<ev.conn, HandshakeRequiredFrame>>}
    /\ readyState[ev.conn] = "OPEN" /\ ~handshakeComplete[ev.conn]
    /\ ws # Null /\ ws # ev.conn /\ readyState[ws] = "OPEN"
    /\ pendingRequests # {}

\* C16: when the connection a command was written on closes while the request is
\* still outstanding, that close completes the request with "Digma plugin
\* disconnected" and removes it from the pending table.  Stated for runs in which
\* no handshake has failed.
C16_OwnerLossCompletes ==
    [][\A c \in Conns, id \in Ids :
         (/\ \A d \in Conns : ~HandshakeFailed(d)
          /\ id \in pendingRequests /\ id \in CommandsOn(c) /\ Close(c))
         => /\ settled'[id] = Append(settled[id], Reject(Disconnected))
            /\ id \notin pendingRequests']_vars

\* The requests that were registered and have not been completed.
Outstanding == {i \in issued : settled[i] = <<>>}

\* C17: every outstanding request has its own entry in the pending table (the
\* table holds exactly one entry per outstanding request), and a sendCommand
\* that registers a request does so under an id that no entry uses, adds exactly
\* one entry, and leaves every earlier entry, its timer and its promise in place.
C17_RegisterNeverOverwrites ==
    [][/\ (ev'.kind = "sendCommand" /\ ev'.res = "pending")
          => /\ ev'.id \notin pendingRequests
             /\ ev'.id \notin timeout
             /\ settled[ev'.id] = <<>>
             /\ pendingRequests' = pendingRequests \cup {ev'.id}
             /\ Cardinality(pendingRequests') = Cardinality(pendingRequests) + 1
             /\ \A other \in pendingRequests :
                  /\ other \in timeout => other \in timeout'
                  /\ settled'[other] = settled[other]
       /\ pendingRequests' = Outstanding']_vars

\* A request has just been registered while an earlier one is still outstanding.
C17_Witness ==
    /\ ev.kind = "sendCommand" /\ ev.res = "pending"
    /\ \E other \in pendingRequests :
         other # ev.id /\ other \in timeout /\ settled[other] = <<>>
    /\ ev.id \in pendingRequests /\ settled[ev.id] = <<>>

\* C18: a frame that does not parse, received on any connection (authenticated or
\* not), changes nothing: the connection is not closed and still receives, its
\* handshake status, the active connection, the pending table with its timers and
\* promises are as before, and nothing is transmitted; the handling of any later
\* message therefore starts from the state a run without the frame would be in.
C18_MalformedSwallowed ==
    [][\A c \in Conns :
         Message(c, BadFrame)
         => /\ BridgeStateUnchanged
            /\ wire' = wire
            /\ ev'.out = {}
            /\ Receiving(c)']_vars

\* A malformed frame was just handled on the active connection while a request
\* written on it is outstanding.
C18_Witness ==
    /\ ev.kind = "message" /\ ev.res = "parse_error"
    /\ ws = ev.conn /\ handshakeComplete[ev.conn] /\ readyState[ev.conn] = "OPEN"
    /\ \E id \in pendingRequests : id \in CommandsOn(ev.conn) /\ id \in timeout

\* A catalog push: a catalog_update message that carries a catalog.
IsCatalogPush(m) == m.parsed /\ m.type = "catalog_update" /\ m.catalog # NoCatalog

\* C19: a catalog push received on an authenticated connection is stored under
\* its file key and handled no further: the pending table, the request timers
\* and the promises are unchanged, nothing is transmitted and no socket changes,
\* whether or not the push carries the id of an outstanding request.
C19_CatalogPushOnlyStored ==
    [][\A c \in Conns, m \in Msgs :
         (handshakeComplete[c] /\ IsCatalogPush(m) /\ Message(c, m))
         => /\ getCatalog(catalogs', m.catalog.fileKey) = m.catalog
            /\ \A k \in FileKeys \ {m.catalog.fileKey} :
                 getCatalog(catalogs', k) = getCatalog(catalogs, k)
            /\ UNCHANGED <<pendingRequests, timeout, settled, issued, wire, readyState,
                           closeCode, ws, authenticated, handshakeComplete>>
            /\ ev'.out = {}]_vars

\* A catalog push carrying the id of an outstanding request was just handled on
\* the active connection: the catalog is stored and the request is still pending.
C19_Witness ==
    /\ ev.kind = "message" /\ ev.res = "catalog" /\ ev.id # NoId
    /\ ws = ev.conn /\ handshakeComplete[ev.conn]
    /\ ev.id \in pendingRequests /\ ev.id \in timeout /\ settled[ev.id] = <<>>
    /\ catalogs # <<>>

\* The envelope e is the well-formed one for the settlement s: one text item; for
\* a success the JSON text of the result and no isError; for a failure isError
\* set and the failure's message after "Error: ".
IsEnvelopeFor(e, s) ==
    /\ DOMAIN e \subseteq {"content", "isError"}
    /\ "content" \in DOMAIN e
    /\ Len(e.content) = 1
    /\ e.content[1].type = "text"
    /\ IF s.kind = "resolve"
       THEN /\ "isError" \notin DOMAIN e
            /\ s.val \in Results
            /\ e.content[1].text = "json:" \o s.val
       ELSE /\ "isError" \in DOMAIN e
            /\ e.isError
            /\ s.val \in {NotConnected, TimedOut, Disconnected} \cup ErrorTexts
            /\ e.content[1].text = "Error: " \o s.val

C21_StatusBypassesBridge ==
    [][get_connection_status
         => /\ BridgeStateUnchanged
            /\ wire' = wire
            /\ ev'.out = {}
            /\ ev'.res \in {"json:{connected: true}", "json:{connected: false}"}
            /\ ev'.res = "json:{connected: true}"
                 <=> \E c \in Conns :
                       ws = c /\ handshakeComplete[c] /\ readyState[c] = "OPEN"]_vars

\* The status tool has just answered connected: false while the active slot
\* still holds a connection (its socket is closing) and a request is outstanding.
C21_Witness ==
    /\ ev.kind = "get_connection_status" /\ ev.res = "json:{connected: false}"
    /\ ws # Null /\ readyState[ws] = "CLOSING" /\ authenticated
    /\ pendingRequests # {}

\* A success reply: a well-formed message that is neither an error nor a catalog
\* push nor a handshake response, and carries a result.
IsSuccessReply(m) == m.parsed /\ m.type = "" /\ m.result \in Results

\* C22: end to end.  A tool invocation made while an authenticated connection is
\* active writes one new frame, {id, command, params} with the tool's command
\* and the caller's params, on that connection and on no other; and a success
\* reply {id, result} for that id arriving on that connection makes the tool
\* return the success envelope whose text is the JSON of the result.
C22_EndToEnd ==
    [][/\ \A command \in Commands, params \in Params :
            (isConnected /\ sendCommand(command, params))
            => /\ handshakeComplete[ws]
               /\ ev'.id \in Ids
               /\ wire'[ws] \ wire[ws] = {[type |-> "", nonce |-> NoNonce, id |-> ev'.id,
                                           command |-> command, params |-> params,
                                           error |-> ""]}
               /\ \A d \in Conns \ {ws} : wire'[d] = wire[d]
       /\ \A c \in Conns, m \in Msgs :
            (/\ c = ws /\ handshakeComplete[c] /\ IsSuccessReply(m)
             /\ m.id \in pendingRequests /\ m.id \in CommandsOn(c) /\ Message(c, m))
            => /\ settled'[m.id] = <<[kind |-> "resolve", val |-> m.result]>>
               /\ run(settled'[m.id][1])
                    = [content |-> <<[type |-> "text", text |-> "json:" \o m.result]>>]]_vars

\* The reply to a command written on the active connection has just been
\* processed there, and the tool returns the success envelope.
C22_Witness ==
    /\ ev.kind = "message" /\ ev.res = "completed" /\ ev.id # NoId
    /\ ws # Null /\ ev.conn = ws /\ readyState[ws] = "OPEN"
    /\ \E command \in Commands, params \in Params :
         CommandFrame(ev.id, command, params) \in wire[ws]
    /\ settled[ev.id] # <<>> /\ settled[ev.id][1].kind = "resolve"
    /\ run(settled[ev.id][1]) = ok(settled[ev.id][1].val)

\* C23: a reply whose id has a pending entry, handled on a connection that
\* completed its handshake, settles that request by its kind: type "error"
\* rejects it with the reply's error text as the message (so the tool returns
\* "Error: " followed by that text), any other reply resolves it with the
\* reply's result; either way the request's timer is cancelled and its entry
\* removed from the table.
C23_ReplyByKind ==
    [][\A c \in Conns, m \in Msgs :
         (handshakeComplete[c] /\ IsReply(m) /\ m.id \in pendingRequests /\ Message(c, m))
         => /\ m.id \notin pendingRequests'
            /\ m.id \notin timeout'
            /\ Len(settled'[m.id]) = Len(settled[m.id]) + 1
            /\ LET s == settled'[m.id][Len(settled'[m.id])] IN
                 IF m.type = "error"
                 THEN /\ s = [kind |-> "reject", val |-> m.error]
                      /\ run(s).isError
                      /\ run(s).content[1].text = "Error: " \o m.error
                 ELSE /\ s = [kind |-> "resolve", val |-> m.result]
                      /\ "isError" \notin DOMAIN run(s)]_vars

\* An error reply has just failed its request with the peer's text, while its
\* timer was still armed before: the timer is gone and so is the entry.
C23_Witness ==
    /\ ev.kind = "message" /\ ev.res = "completed" /\ ev.id # NoId
    /\ settled[ev.id] # <<>> /\ settled[ev.id][1].kind = "reject"
    /\ settled[ev.id][1].val \in ErrorTexts
    /\ ev.id \notin timeout /\ ev.id \notin pendingRequests
    /\ run(settled[ev.id][1]).content[1].text = "Error: " \o settled[ev.id][1].val

\* The entries of the store that are kept under fileKey.
EntriesOf(cats, fileKey) == {i \in DOMAIN cats : cats[i].fileKey = fileKey}

\* C24: catalog replacement.  A put (a setCatalog call, its catalog recorded as
\* the call's argument) stores its catalog as the single entry of its
\* key, so that get of that key returns exactly the catalog just put (none of
\* the fields or elements of the catalog it replaces), and leaves what get
\* returns for every other key as it was; get returns the stored entry and
\* changes nothing.  By induction over the puts, get returns the most recent put
\* of its key.
C24_LastPutWins ==
    [][/\ ev'.kind = "setCatalog"
            => /\ getCatalog(catalogs', ev'.arg.fileKey) = ev'.arg
               /\ Cardinality(EntriesOf(catalogs', ev'.arg.fileKey)) = 1
               /\ \A k \in ScannerFileKeys \ {ev'.arg.fileKey} :
                    getCatalog(catalogs', k) = getCatalog(catalogs, k)
       /\ ev'.kind = "getCatalog"
            => /\ catalogs' = catalogs
               /\ \/ EntriesOf(catalogs, ev'.arg) = {} /\ ev'.ret = NoCatalog
                  \/ \E i \in EntriesOf(catalogs, ev'.arg) : ev'.ret = catalogs[i]]_vars

\* A second put under a key has just replaced a catalog that had components by
\* one that has none, while another key is stored as well.
C24_Witness ==
    /\ ev.kind = "setCatalog" /\ ev.ret = "replaced"
    /\ ev.arg.components = <<>>
    /\ getCatalog(catalogs, ev.arg.fileKey) = ev.arg
    /\ Len(catalogs) = 2

\* Two characters are the same letter, whatever their case.
SameLetter(x, y) == x = y \/ {x, y} = {"a", "A"} \/ {x, y} = {"b", "B"}

\* The text contains q as a substring when case is ignored.
ContainsIgnoringCase(text, q) ==
    \E i \in 1..(Len(text) - Len(q) + 1) :
        \A k \in 1..Len(q) : SameLetter(text[i + k - 1], q[k])

\* One of the four searched fields of the component contains q.
Matches(comp, q) ==
    \E text \in {comp.name, comp.description, comp.componentSetName,
                 comp.containingFrame} : ContainsIgnoringCase(text, q)

\* How often x occurs in a sequence, and among the components of all catalogs.
Occurrences(seq, x) == Cardinality({i \in DOMAIN seq : seq[i] = x})
StoredOccurrences(cats, x) ==
    Cardinality({p \in (DOMAIN cats) \X (1..MaxComponents) :
                    /\ p[2] \in DOMAIN cats[p[1]].components
                    /\ cats[p[1]].components[p[2]] = x})

\* C25: for every query and every content of the store, search returns every
\* stored component one of whose name, description, set name or container name
\* contains the query as a case-insensitive substring, as often as it is stored,
\* and returns no other component.
C25_SearchExact ==
    \A q \in Queries : \A x \in Components :
        Occurrences(searchComponents(catalogs, q), x)
            = IF Matches(x, q) THEN StoredOccurrences(catalogs, x) ELSE 0

\* A search with an upper-case query has just returned some but not all of the
\* stored components, among them one that matches only through its set name or
\* its container name.
C25_Witness ==
    /\ ev.kind = "searchComponents" /\ ev.arg # <<>>
    /\ \E k \in DOMAIN ev.arg : ev.arg[k] = "A"
    /\ ev.ret # <<>>
    /\ Len(ev.ret) < Len(getAllComponents(catalogs))
    /\ \E j \in DOMAIN ev.ret :
         /\ ~ContainsIgnoringCase(ev.ret[j].name, ev.arg)
         /\ ~ContainsIgnoringCase(ev.ret[j].description, ev.arg)

\* r is a subsequence of all: its elements are elements of all, in all's order.
IsSubsequence(r, all) ==
    \E at \in [DOMAIN r -> DOMAIN all] :
        /\ \A a, b \in DOMAIN r : a < b => at[a] < at[b]
        /\ \A a \in DOMAIN r : r[a] = all[at[a]]

\* The number of elements that come before those of catalog i in the joint order.
Before(lists, i) ==
    LET n[k \in 0..Len(lists)] == IF k = 0 THEN 0 ELSE n[k - 1] + Len(lists[k])
    IN n[i - 1]

\* all is the lists one after the other, each in its own order.
IsJoined(all, lists) ==
    /\ Len(all) = Before(lists, Len(lists) + 1)
    /\ \A i \in DOMAIN lists : \A j \in DOMAIN lists[i] :
         all[Before(lists, i) + j] = lists[i][j]

\* C26: allComponents and allStyles list the catalogs in the store's iteration
\* order and, within a catalog, in the order of its component (style) sequence;
\* and for every query the search result is an order-preserving subsequence of
\* allComponents.
C26_OneOrder ==
    /\ IsJoined(getAllComponents(catalogs), [i \in DOMAIN catalogs |-> catalogs[i].components])
    /\ IsJoined(getAllStyles(catalogs), [i \in DOMAIN catalogs |-> catalogs[i].styles])
    /\ \A q \in Queries :
         IsSubsequence(searchComponents(catalogs, q), getAllComponents(catalogs))

\* A search has just returned components of two catalogs with different
\* component lists, leaving at least one stored component out.
C26_Witness ==
    /\ ev.kind = "searchComponents"
    /\ Len(catalogs) = 2
    /\ catalogs[1].components # catalogs[2].components
    /\ catalogs[1].components # <<>> /\ catalogs[2].components # <<>>
    /\ Len(ev.ret) >= 2
    /\ Len(ev.ret) < Len(getAllComponents(catalogs))
    /\ ev.ret[1] # ev.ret[2]

\* Every command frame on a wire belongs to a request that is registered: its
\* id is in the pending table unless the request has been completed since.
WrittenImpliesRegistered ==
    \A c \in Conns : \A id \in CommandsOn(c) :
        id \in issued /\ (settled[id] = <<>> => id \in pendingRequests)

\* C27: a sendCommand made while a connection is active adds one entry to the
\* pending table, under an id never used before, arms that id's timer, and
\* transmits one frame, the command with that id, on the connection that is
\* active in that step and on no other; frame and entry appear in the same step,
\* so no reply can be processed for an id that is written but not registered.
C27_RegisterAndWrite ==
    [][/\ \A command \in Commands, params \in Params :
            (isConnected /\ sendCommand(command, params))
            => /\ ev'.id \in Ids \ issued
               /\ pendingRequests' = pendingRequests \cup {ev'.id}
               /\ ev'.id \notin pendingRequests
               /\ timeout' = timeout \cup {ev'.id}
               /\ ev'.id \notin timeout
               /\ ev'.conn = ws /\ ws' = ws
               /\ ev'.out = {<<ws, CommandFrame(ev'.id, command, params)>>}
               /\ CommandsOn(ws)' = CommandsOn(ws) \cup {ev'.id}
               /\ \A d \in Conns \ {ws} : wire'[d] = wire[d]
       /\ WrittenImpliesRegistered']_vars

\* A command has just been written on the active connection and registered,
\* while another connection is open and has been sent no command.
C27_Witness ==
    /\ ev.kind = "sendCommand" /\ ev.res = "pending"
    /\ ws # Null /\ ev.conn = ws
    /\ ev.id \in CommandsOn(ws) /\ ev.id \in pendingRequests /\ ev.id \in timeout
    /\ \E d \in Conns \ {ws} : readyState[d] = "OPEN" /\ CommandsOn(d) = {}

\* The step is one of the three events that take request id out of the table: a
\* reply with its id handled on a connection that completed its handshake, the
\* request's own timer, or the close of the connection in the active slot (which
\* empties the table).
RemovalEvent(id) ==
    \/ /\ ev'.kind = "message" /\ ev'.res = "completed" /\ ev'.id = id
       /\ handshakeComplete[ev'.conn]
    \/ ev'.kind = "requestTimer" /\ ev'.id = id
    \/ /\ ev'.kind = "close" /\ ws # Null /\ ev'.conn = ws
       /\ pendingRequests' = {}

\* C28: an entry leaves the pending table, and its timer is cancelled, only in
\* a step that is a reply with its id on an authenticated connection, its own
\* timer firing, or the close of the active connection; every other event
\* (connections, handshakes, other messages, closes of other connections,
\* sendCommand, the status tool) leaves it in the table with its timer.
C28_ThreeWaysOut ==
    [][\A id \in pendingRequests :
         (id \notin pendingRequests' \/ (id \in timeout /\ id \notin timeout'))
         => RemovalEvent(id)]_vars

\* Both requests have left the table, one by a reply and, just now, the other by
\* its timer.
C28_Witness ==
    /\ pendingRequests = {}
    /\ ev.kind = "requestTimer" /\ ev.id # NoId
    /\ settled[ev.id] = <<Reject(TimedOut)>>
    /\ \E other \in Ids \ {ev.id} :
         settled[other] # <<>> /\ settled[other][1].kind = "resolve"

\* C29: a connection that has completed its handshake is never closed with the
\* handshake-timeout status: from then on no step gives it close code 4001, its
\* handshake timer changes neither its socket state nor its close code, and
\* the close that ends it is not one with status 4001.
C29_AuthenticatedNeverTimedOut ==
    [][\A c \in Conns :
         handshakeComplete[c]
         => /\ closeCode'[c] = CLOSE_HANDSHAKE_TIMEOUT => closeCode[c] = CLOSE_HANDSHAKE_TIMEOUT
            /\ HandshakeTimer(c) => UNCHANGED <<readyState, closeCode>>
            /\ Close(c) => closeCode[c] # CLOSE_HANDSHAKE_TIMEOUT]_vars

\* The valid handshake response of connection d: the hash of d's nonce under the
\* bridge's key.
ResponseFor(d) ==
    [parsed |-> TRUE, type |-> "handshake_response",
     hash |-> Hmac(HANDSHAKE_KEY, nonce[d]), id |-> NoId, result |-> "", error |-> "",
     catalog |-> NoCatalog]

\* C30: every accepted connection has been sent a challenge with its own nonce,
\* different from the nonce of every other connection; and the response that is
\* valid for another connection, delivered on a connection that has not completed
\* its handshake, does not authenticate it: it is treated as an invalid hash,
\* nothing is acknowledged and the active connection stays as it is.
C30_NoncePerConnection ==
    [][/\ \A c \in Conns :
            readyState'[c] # "NONE"
            => /\ nonce'[c] # NoNonce
               /\ ChallengeFrame(nonce'[c]) \in wire'[c]
               /\ \A d \in Conns \ {c} : nonce'[d] # nonce'[c]
       /\ \A c \in Conns : \A d \in Conns \ {c} :
            (/\ ~handshakeComplete[c] /\ readyState[d] # "NONE"
             /\ Message(c, ResponseFor(d)))
            => /\ ~handshakeComplete'[c]
               /\ ws' = ws /\ authenticated' = authenticated
               /\ ev'.res = "invalid" /\ ev'.out = {}
               /\ wire' = wire]_vars

\* A response has just been rejected on an open connection while the other
\* connection, challenged with a different nonce, is authenticated and active.
C30_Witness ==
    /\ ev.kind = "message" /\ ev.res = "invalid"
    /\ closeCode[ev.conn] = CLOSE_INVALID_HANDSHAKE /\ ~handshakeComplete[ev.conn]
    /\ ws # Null /\ ws # ev.conn /\ handshakeComplete[ws] /\ readyState[ws] = "OPEN"
    /\ nonce[ws] # nonce[ev.conn]
    /\ ChallengeFrame(nonce[ev.conn]) \in wire[ev.conn]

\* Indices of the posts that carry the id.
ResponsesTo(id) == {i \in DOMAIN posted : posted[i].id = id}
\* What the dispatcher has posted so far is one response per command whose
\* handling has ended, none for any other message, and an error for a command
\* name the lookup does not find.
OneResponseEach ==
    /\ \A msg \in received :
           /\ Cardinality(ResponsesTo(msg.id))
                  = IF msg.type = "command" /\ msg \notin awaiting THEN 1 ELSE 0
           /\ Lookup(msg.command) = Undefined
                  => \A i \in ResponsesTo(msg.id) : posted[i].type = "error_response"
    /\ \A i \in DOMAIN posted :
           \E msg \in received : msg.type = "command" /\ msg.id = posted[i].id

MatchingPlaces(cats, q) ==
    UNION {{<<i, j>> : j \in {k \in DOMAIN cats[i].components :
                                 Matches(cats[i].components[k], q)}} : i \in DOMAIN cats}
Earlier(p, r) == p[1] < r[1] \/ (p[1] = r[1] /\ p[2] < r[2])
RankOf(places, r) == Cardinality({p \in places : Earlier(p, r)}) + 1

\* C32: search_library_components reports as count the number of all stored
\* components that match the query, and returns as components the first
\* min(count, 50) of them in search order; it runs whether or not a peer is
\* connected and leaves the bridge, its requests and its connections untouched.
C32_CountIsTotal ==
    [][ev'.kind = "search_library_components"
              => LET places == MatchingPlaces(catalogs, ev'.arg)
                     count == Cardinality(places)
                     text == ev'.ret.content[1].text
                     ret == text.json
                 IN /\ DOMAIN ev'.ret = {"content"}
                    /\ ret.count = count
                    /\ Len(ret.components) = IF count < 50 THEN count ELSE 50
                    /\ \A r \in places :
                           RankOf(places, r) <= 50
                               => ret.components[RankOf(places, r)]
                                      = catalogs[r[1]].components[r[2]]
                    /\ UNCHANGED <<wire, pendingRequests, timeout, issued, settled,
                                   readyState, closeCode, ws, authenticated, catalogs>>]_vars
C32_Witness ==
    /\ ev.kind = "search_library_components"
    /\ ev.ret.content[1].text.json.count > 50
    /\ Len(ev.ret.content[1].text.json.components) = 50
    /\ isConnected

\* C33: in every reachable state the authenticated flag is set exactly when the
\* active-connection slot holds a connection: an accepted handshake sets both,
\* the close of the active connection clears both, and every other step
\* (displacement, close of another connection, failed handshake) changes neither
\* without the other.
C33_FlagIffSlot ==
    [][/\ authenticated <=> ws # Null
       /\ authenticated' <=> ws' # Null
       /\ \A c \in Conns :
              /\ ev'.kind = "message" /\ ev'.conn = c /\ ev'.res = "authenticated"
                     => authenticated' /\ ws' = c
              /\ Close(c) /\ ws = c => ~authenticated' /\ ws' = Null
              /\ Close(c) /\ ws # c => UNCHANGED <<ws, authenticated>>
              /\ ev'.kind = "message" /\ ev'.conn = c /\ ev'.res = "invalid"
                     => UNCHANGED <<ws, authenticated>>]_vars
C33_Witness ==
    /\ ev.kind = "close"
    /\ ws = Null
    /\ ~authenticated
    /\ \E c \in Conns : handshakeComplete[c] /\ c # ev.conn /\ readyState[c] = "CLOSING"

\* C34: in every reachable state, an empty active-connection slot means an empty
\* pending table: no request is outstanding while there is no active connection.
C34_NoSlotNoPending == ws = Null => pendingRequests = {}
C34_Witness ==
    /\ ws = Null
    /\ pendingRequests = {}
    /\ ev.kind = "close"
    /\ \E id \in issued : settled[id] = <<[kind |-> "reject", val |-> Disconnected]>>

\* C35: the close event of a connection that is not the active one when the event
\* is processed (it never authenticated, or it was displaced) leaves the active
\* slot, the authenticated flag and the pending table as they are and completes
\* no request; of the bridge's state it changes only that connection's handshake
\* timer, which it cancels.
C35_ForeignCloseIsLocal ==
    [][\A c \in Conns :
          Close(c) /\ ws # c
              => /\ UNCHANGED <<ws, authenticated, pendingRequests, timeout, settled,
                                issued, wire, nonce, handshakeComplete, catalogs>>
                 /\ handshakeTimeout' = [handshakeTimeout EXCEPT ![c] = FALSE]]_vars
C35_Witness ==
    /\ ev.kind = "close"
    /\ ws # Null
    /\ ws # ev.conn
    /\ handshakeComplete[ev.conn]
    /\ pendingRequests # {}
    /\ CommandsOn(ev.conn) \cap pendingRequests # {}

\* The handshake responses of the protocol: a type and a hash (possibly empty).
HandshakeResponses == {m \in Msgs : m.type = "handshake_response"}

C37_OwnConnectionOnly ==
    ev.kind = "message" /\ ev.res = "completed" => ev.id \in CommandsOn(ev.conn)

\* {type: "handshake_response"} with the hash absent or empty.
EmptyResponse == Msg(TRUE, "handshake_response", NoHash, NoId, "", "", NoCatalog)

\* C38 (as stated): a handshake_response without a hash received before
\* authentication is answered with the "Handshake required" notice, closes
\* nothing and changes no bridge state; a valid response that follows it on the
\* same connection is still accepted.
C38_EmptyHashAnswered ==
    [][\A c \in Conns :
          /\ (~handshakeComplete[c] /\ Message(c, EmptyResponse))
                 => /\ ev'.res = "handshake_required"
                    /\ ev'.out = {<<c, HandshakeRequiredFrame>>}
                    /\ HandshakeRequiredFrame \in wire'[c]
                    /\ BridgeStateUnchanged
          /\ (/\ ~handshakeComplete[c]
              /\ HandshakeRequiredFrame \in wire[c]
              /\ Message(c, ValidResponse(c)))
                 => handshakeComplete'[c] /\ authenticated' /\ ws' = c]_vars

\* C38 (amended): such a response is answered with the notice when the socket is
\* still open and with nothing when the bridge has already closed it (the send is
\* dropped); in both cases it is handled as a non-handshake message: no close
\* with the invalid-handshake status, no change of the bridge's state, the nonce
\* and the handshake timer as they were; and a valid response that follows it on
\* the same connection is still accepted.
C38_EmptyHashWhileOpen ==
    [][\A c \in Conns :
          /\ (~handshakeComplete[c] /\ Message(c, EmptyResponse))
                 => /\ ev'.res = "handshake_required"
                    /\ readyState[c] = "OPEN"
                           => /\ ev'.out = {<<c, HandshakeRequiredFrame>>}
                              /\ wire' = [wire EXCEPT ![c] = @ \cup {HandshakeRequiredFrame}]
                    /\ readyState[c] # "OPEN" => ev'.out = {} /\ wire' = wire
                    /\ BridgeStateUnchanged
          /\ (/\ ~handshakeComplete[c]
              /\ HandshakeRequiredFrame \in wire[c]
              /\ Message(c, ValidResponse(c)))
                 => handshakeComplete'[c] /\ authenticated' /\ ws' = c]_vars

\* A connection that was sent the notice authenticated afterwards, its handshake
\* timer not having fired.
C38_Witness ==
    /\ ev.kind = "message" /\ ev.res = "authenticated"
    /\ HandshakeRequiredFrame \in wire[ev.conn]
    /\ HandshakeOkFrame \in wire[ev.conn]
    /\ closeCode[ev.conn] = NoCode
    /\ readyState[ev.conn] = "OPEN"
    /\ ws = ev.conn

\* C39: the catalog store only grows or replaces: setCatalog(catalog) stores the
\* catalog under its key and leaves the entry of every other key as it was, no
\* step removes an entry, so hasAnyCatalog stays true once it is true; and
\* get_library_info returns its "no library loaded" error exactly when the store
\* is empty, which it is exactly until the first catalog is stored.
C39_StoreOnlyGrows ==
    [][/\ \A k \in ScannerFileKeys : MapHas(catalogs, k) => MapHas(catalogs', k)
       /\ Len(catalogs') >= Len(catalogs)
       /\ hasAnyCatalog(catalogs) => hasAnyCatalog(catalogs')
       /\ ev'.kind = "setCatalog"
              => /\ hasAnyCatalog(catalogs')
                 /\ getCatalog(catalogs', ev'.arg.fileKey) = ev'.arg
                 /\ \A k \in ScannerFileKeys \ {ev'.arg.fileKey} :
                        /\ MapHas(catalogs', k) <=> MapHas(catalogs, k)
                        /\ MapHas(catalogs, k)
                               => getCatalog(catalogs', k) = getCatalog(catalogs, k)
       /\ ev'.kind = "get_library_info"
              => /\ "isError" \in DOMAIN ev'.ret <=> catalogs = <<>>
                 /\ catalogs = <<>> => ev'.ret = err(NoLibraryLoaded)
                 /\ catalogs # <<>>
                        => /\ DOMAIN ev'.ret = {"content"}
                           /\ Len(ev'.ret.content[1].text.json) = Len(catalogs)]_vars
C39_Witness ==
    /\ ev.kind = "get_library_info"
    /\ Len(catalogs) = 2
    /\ "isError" \notin DOMAIN ev.ret
    /\ Len(ev.ret.content[1].text.json) = 2

====
